---- MODULE Spec2Model ----
(***************************************************************************)
(* Model of the Wispr Flow recap scripts: scripts/daily-recap.js (daily    *)
(* command), the weekly script (second half of src/scripts/daily-recap.js, *)
(* from line 891) and scripts/monthly-recap.js.  One run of one command is *)
(* a straight-line program: resolve the period, check that the database    *)
(* file exists, open it read-only, run one SELECT, leave early when it     *)
(* returns nothing, aggregate, render, close.                               *)
(*                                                                         *)
(* Text is modelled by its structure.  A date string "YYYY-MM-DD" is the   *)
(* tuple <<y, m, d>>, "YYYY-MM" is <<y, m>>, and a string with no number   *)
(* in it is <<NaN>> (what split("-").map(Number) makes of it).  A bundle   *)
(* identifier is the sequence of its dot-separated components, each the    *)
(* sequence of its hyphen-separated pieces; a display name is the sequence *)
(* of its space-separated words.  A piece or word is Text(s) or, when it   *)
(* is a decimal numeral, Digits(n).                                        *)
(***************************************************************************)
EXTENDS Integers, Sequences, FiniteSets, TLC

VARIABLES
  cmd,       \* "daily" | "weekly" | "monthly": which script runs
  tz,        \* the machine's UTC offset in hours (local = UTC + tz)
  now,       \* the instant of the run, in UTC: [day, hour]
  flag,      \* text after --date= / --week-of= / --month=, or NoFlag
  flagHTML,  \* args.includes("--html")
  dbExists,  \* fs.existsSync(DB_PATH)
  store,     \* the History table: rows in timestamp order
  earlier,   \* the run of the same command made before this one, or NoRun
  pc,        \* position of the script
  period,    \* targetDate / week / monthRange (+ targetMonth)
  db,        \* the store handle: "unopened" | "open" | "closed"
  sqlLog,    \* statements issued on the handle
  rows,      \* result of the query
  data,      \* the aggregated statistics handed to the renderer
  stdout,    \* what console.log printed, by kind
  stderr,    \* what was printed on stderr, by kind
  htmlFile,  \* files written with fs.writeFileSync
  shown,     \* what the renderer derived from the statistics and displayed
  bars,      \* the calls of barChart made by printCLI, with their results
  exitCode   \* Running while the process runs, then its exit status

vars == <<cmd, tz, now, flag, flagHTML, dbExists, store, earlier, pc, period, db,
          sqlLog, rows, data, stdout, stderr, htmlFile, shown, bars, exitCode>>

-----------------------------------------------------------------------------
(* Numbers that are not numbers.                                           *)

(* They stand far below every number the model computes with.              *)

NaN == 0 - 1000000       \* Number("word"), getDay() of an Invalid Date
NullNum == 0 - 2000000   \* SQL NULL in a numeric column
Running == 0 - 3000000   \* exitCode of a process that has not exited

-----------------------------------------------------------------------------
(* The calendar behind the JavaScript Date object.  Day numbers count from *)
(* 2023-01-01, a Sunday.                                                   *)

Years == 2023..2027

IsLeap(y) == (y % 4 = 0 /\ y % 100 # 0) \/ y % 400 = 0

DaysInYear(y) == IF IsLeap(y) THEN 366 ELSE 365

DaysInMonth(y, m) ==
  IF m = 2 THEN (IF IsLeap(y) THEN 29 ELSE 28)
  ELSE IF m \in {4, 6, 9, 11} THEN 30 ELSE 31

RECURSIVE DaysBeforeYear(_)
DaysBeforeYear(y) ==
  IF y <= 2023 THEN 0 ELSE DaysBeforeYear(y - 1) + DaysInYear(y - 1)

RECURSIVE DaysBeforeMonth(_, _)
DaysBeforeMonth(y, m) ==
  IF m <= 1 THEN 0 ELSE DaysBeforeMonth(y, m - 1) + DaysInMonth(y, m - 1)

DayNumber(y, m, d) == DaysBeforeYear(y) + DaysBeforeMonth(y, m) + (d - 1)

YearOf(n) ==
  CHOOSE y \in Years :
    DaysBeforeYear(y) <= n /\ n < DaysBeforeYear(y) + DaysInYear(y)

MonthOf(n) ==
  LET y == YearOf(n)
      r == n - DaysBeforeYear(y)
  IN  CHOOSE m \in 1..12 :
        DaysBeforeMonth(y, m) <= r /\ r < DaysBeforeMonth(y, m) + DaysInMonth(y, m)

\* The date string "YYYY-MM-DD" of every day number of the years modelled.
DateTable ==
  [n \in 0..(DaysBeforeYear(2027) + 364) |->
     LET y == YearOf(n)
         m == MonthOf(n)
     IN  <<y, m, n - DayNumber(y, m, 1) + 1>>]

DateOf(n) == DateTable[n]

\* A string that new Date(s + "T12:00:00") can parse.
IsDateString(s) ==
  /\ Len(s) = 3
  /\ s[1] \in Years
  /\ s[2] \in 1..12
  /\ s[3] \in 1..DaysInMonth(s[1], s[2])

\* "YYYY-MM-DD" strings compare as text: year, then month, then day.
DateLeq(a, b) ==
  \/ a[1] < b[1]
  \/ a[1] = b[1] /\ a[2] < b[2]
  \/ a[1] = b[1] /\ a[2] = b[2] /\ a[3] <= b[3]

(* A Date object is a local wall-clock time [day, hour], or InvalidDate.   *)

InvalidDate == [day |-> NaN, hour |-> NaN]

IsInvalid(dt) == dt.day = NaN

\* new Date(year, monthIndex, day): local midnight, with the month index and
\* the day of the month carried over into the year and month.
NewDate(year, monthIndex, day) ==
  IF year = NaN \/ monthIndex = NaN \/ day = NaN THEN InvalidDate
  ELSE [day  |-> DayNumber(year + (monthIndex \div 12), (monthIndex % 12) + 1, 1)
                   + (day - 1),
        hour |-> 0]

\* new Date(s + "T12:00:00"): local noon of the date s.
NewDateNoon(s) ==
  IF IsDateString(s) THEN [day |-> DayNumber(s[1], s[2], s[3]), hour |-> 12]
  ELSE InvalidDate

\* Date.prototype.getDay: 0 = Sunday .. 6 = Saturday.
GetDay(dt) == IF IsInvalid(dt) THEN NaN ELSE dt.day % 7

\* Date.prototype.getDate: the day of the month.
GetDate(dt) == IF IsInvalid(dt) THEN NaN ELSE DateOf(dt.day)[3]

\* Date.prototype.setDate(v): day v of the date's month, carried over.
SetDate(dt, v) ==
  IF IsInvalid(dt) \/ v = NaN THEN InvalidDate
  ELSE LET s == DateOf(dt.day)
       IN  [dt EXCEPT !.day = DayNumber(s[1], s[2], 1) + (v - 1)]

\* toISOString().slice(0, 10): the calendar date, in UTC, of the local time
\* dt on a machine at offset off.  The caller handles the RangeError that an
\* Invalid Date raises.
ISODate(dt, off) == DateOf((dt.day * 24 + dt.hour - off) \div 24)

\* new Date().toISOString().slice(0, 10)
TodayISO == DateOf(now.day)

-----------------------------------------------------------------------------
(* Text pieces, and the JavaScript object used as a map.                   *)

Text(s) == [t |-> s, n |-> NaN]      \* a piece that is not a numeral
Digits(k) == [t |-> "", n |-> k]     \* the decimal numeral of k
W(s) == <<Text(s)>>                  \* a component or name of one text piece

\* A property key that is a canonical array index ("0", "7", "23").
IsArrayIndex(k) == Len(k) = 1 /\ k[1].t = "" /\ k[1].n >= 0

\* Property names every object literal {} inherits from Object.prototype:
\* obj[name] is a truthy function although obj has no such own property.
ObjectPrototypeKeys ==
  { W("constructor"), W("toString"), W("valueOf"), W("hasOwnProperty"),
    W("isPrototypeOf"), W("propertyIsEnumerable"), W("toLocaleString") }

(* An object is the sequence of its own properties [k, v] in the order of  *)
(* their creation.                                                         *)

OwnIndex(o, k) ==
  IF \E i \in 1..Len(o) : o[i].k = k
  THEN CHOOSE i \in 1..Len(o) : o[i].k = k
  ELSE 0

\* Truthiness of obj[k] when the own values are objects or positive counts.
Truthy(o, k) == OwnIndex(o, k) # 0 \/ k \in ObjectPrototypeKeys

\* Mutant of ObjectEntries: every key in creation order.
ObjectEntriesInsertionOrder(o) == o

\* Object.entries(o): the array-index keys in ascending numeric order, then
\* the other keys in creation order.
ObjectEntries(o) ==
  LET idx == SelectSeq(o, LAMBDA e : IsArrayIndex(e.k))
      str == SelectSeq(o, LAMBDA e : ~IsArrayIndex(e.k))
  IN  SortSeq(idx, LAMBDA a, b : a.k[1].n < b.k[1].n) \o str

\* Array.prototype.sort with the comparator (a, b) => Cnt(b) - Cnt(a): a
\* stable sort (Node 11+), descending by Cnt, equal elements keep their order.
\* The elements are tagged [e, c] with their count c = counts[i] before sorting.
RECURSIVE InsertDesc(_, _)
InsertDesc(sorted, x) ==
  IF sorted = <<>> THEN <<x>>
  ELSE IF Head(sorted).c >= x.c
       THEN <<Head(sorted)>> \o InsertDesc(Tail(sorted), x)
       ELSE <<x>> \o sorted

RECURSIVE SortTagged(_, _)
SortTagged(done, todo) ==
  IF todo = <<>> THEN done
  ELSE SortTagged(InsertDesc(done, Head(todo)), Tail(todo))

SortDesc(entries, counts) ==
  LET tagged == [i \in 1..Len(entries) |-> [e |-> entries[i], c |-> counts[i]]]
      sorted == SortTagged(<<>>, tagged)
  IN  [i \in 1..Len(entries) |-> sorted[i].e]

-----------------------------------------------------------------------------
(* Application name resolution.                                            *)

\* The static identifier -> name table of friendlyAppName.
FriendlyMap ==
  { << <<W("dev"), W("warp"), <<Text("Warp"), Text("Stable")>> >>, W("Warp") >>,
    << <<W("com"), W("apple"), W("Safari")>>, W("Safari") >>,
    << <<W("com"), W("google"), W("Chrome")>>, W("Chrome") >>,
    << <<W("com"), W("tinyspeck"), W("slackmacgap")>>, W("Slack") >>,
    << <<W("com"), W("microsoft"), W("VSCode")>>, <<Text("VS"), Text("Code")>> >>,
    << <<W("com"), W("todesktop"), W("230313mzl4w4u92")>>, W("Cursor") >>,
    << <<W("com"), W("linear")>>, W("Linear") >>,
    << <<W("com"), W("apple"), W("MobileSMS")>>, W("Messages") >>,
    << <<W("com"), W("apple"), W("mail")>>, W("Mail") >>,
    << <<W("com"), W("apple"), W("Notes")>>, W("Notes") >>,
    << <<W("com"), W("openai"), W("chat")>>, W("ChatGPT") >>,
    << <<W("com"), W("superhuman"), W("electron")>>, W("Superhuman") >>,
    << <<W("com"), W("figma"), W("Desktop")>>, W("Figma") >>,
    << <<W("com"), W("apple"), W("finder")>>, W("Finder") >>,
    << <<W("com"), W("apple"), W("Terminal")>>, W("Terminal") >>,
    << <<W("md"), W("obsidian")>>, W("Obsidian") >>,
    << <<W("notion"), W("id")>>, W("Notion") >>,
    << <<W("com"), W("codeium"), W("windsurf")>>, W("Windsurf") >>,
    << <<W("company"), W("thebrowser"), W("Browser")>>, W("Arc") >>,
    << <<W("net"), W("shinyfrog"), W("bear")>>, W("Bear") >>,
    << <<W("com"), W("hnc"), W("Discord")>>, W("Discord") >>,
    << <<W("com"), W("spotify"), W("client")>>, W("Spotify") >>,
    << <<W("us"), W("zoom"), W("xos")>>, W("Zoom") >> }

NullApp == <<>>                    \* app IS NULL (or ''): falsy
UnknownId == <<W("Unknown")>>      \* the literal "Unknown" of r.app || "Unknown"

\* An identifier that is the name of a property of Object.prototype: looked
\* up in an object literal it yields the inherited function, which is truthy.
IsInherited(bundleId) == \E k \in ObjectPrototypeKeys : bundleId = <<k>>

\* The inherited function used as a name: the text "function <name>() ..." .
FunctionText(bundleId) == <<Text("function"), bundleId[1][1]>>

\* friendlyAppName(bundleId): "Unknown" for a falsy identifier, map[bundleId]
\* when that is truthy (the table's name for a key of the table, the
\* inherited function for a name of Object.prototype), otherwise the last
\* dot-separated component with its hyphens replaced by spaces (its pieces
\* become the name's words).
friendlyAppName(bundleId) ==
  IF bundleId = NullApp THEN W("Unknown")
  ELSE IF \E e \in FriendlyMap : e[1] = bundleId
       THEN (CHOOSE e \in FriendlyMap : e[1] = bundleId)[2]
       ELSE IF IsInherited(bundleId) THEN FunctionText(bundleId)
            ELSE bundleId[Len(bundleId)]

\* The keys of the icon table of appIconURL: the table of names without
\* Notes, Finder and Terminal.
IconKeys ==
  { e[1] : e \in FriendlyMap } \
    { <<W("com"), W("apple"), W("Notes")>>, <<W("com"), W("apple"), W("finder")>>,
      <<W("com"), W("apple"), W("Terminal")>> }

Null == [src |-> "null"]

\* appIconURL(bundleId): icons[bundleId] || null
appIconURL(bundleId) ==
  IF bundleId \in IconKeys THEN [src |-> "url", of |-> bundleId]
  ELSE IF IsInherited(bundleId) THEN [src |-> "function", of |-> bundleId]
       ELSE Null

\* The icon of an application card: an <img> of the icon URL, or a box with
\* name.charAt(0), here the first character of the name's first word.
IconHTML(iconUrl, name) ==
  IF iconUrl # Null THEN [img |-> iconUrl]
  ELSE [fallback |-> [charAt0 |-> name[1]]]

\* appsSorted.map(([name, stats]) => ... appIconURL(stats.bundleId) ...)
AppCards(d) ==
  [i \in 1..Len(d.appsSorted) |->
     IconHTML(appIconURL(d.appsSorted[i].v.bundleId), d.appsSorted[i].k)]

\* r.app || "Unknown"
BundleIdOf(r) == IF r.app = NullApp THEN UnknownId ELSE r.app

\* r.numWords || 0
WordsOf(r) == IF r.numWords = NullNum THEN 0 ELSE r.numWords

-----------------------------------------------------------------------------
(* Period resolution.                                                      *)

NoFlag == <<>>          \* the option is not on the command line
WordFlag == <<NaN>>     \* a reference with no number in it ("tomorrow")

\* new Date().toISOString().slice(0, 7)
ThisMonthISO == <<TodayISO[1], TodayISO[2]>>

\* daily-recap.js: targetDate
targetDate == IF flag # NoFlag THEN flag ELSE TodayISO

\* weekly: refDate
refDate == IF flag # NoFlag THEN flag ELSE TodayISO

\* monthly-recap.js: targetMonth
targetMonth == IF flag # NoFlag THEN flag ELSE ThisMonthISO

\* The Monday and the Sunday that getWeekRange computes, as Date objects.
WeekMonday(ref) ==
  LET d == NewDateNoon(ref)
      day == GetDay(d)
      diffToMon == IF day = 0 THEN 0 - 6 ELSE 1 - day
  IN  IF IsInvalid(d) THEN InvalidDate ELSE SetDate(d, GetDate(d) + diffToMon)

WeekSunday(ref) ==
  LET monday == WeekMonday(ref)
  IN  IF IsInvalid(monday) THEN InvalidDate
      ELSE SetDate(monday, GetDate(monday) + 6)

\* getWeekRange(refDate) raises RangeError: toISOString of an Invalid Date.
WeekRangeThrows(ref) == IsInvalid(WeekMonday(ref))

getWeekRange(ref) ==
  [start |-> ISODate(WeekMonday(ref), tz),
   end   |-> ISODate(WeekSunday(ref), tz)]

\* yearMonth.split("-").map(Number): the first two numbers, undefined when
\* there is no second one.
YearOfFlag(yearMonth) == yearMonth[1]
MonthOfFlag(yearMonth) == IF Len(yearMonth) >= 2 THEN yearMonth[2] ELSE NaN

MonthFirstDay(yearMonth) ==
  LET month == MonthOfFlag(yearMonth)
  IN  NewDate(YearOfFlag(yearMonth), IF month = NaN THEN NaN ELSE month - 1, 1)

MonthLastDay(yearMonth) ==
  NewDate(YearOfFlag(yearMonth), MonthOfFlag(yearMonth), 0)

\* getMonthRange(yearMonth) raises RangeError: toISOString of an Invalid Date.
MonthRangeThrows(yearMonth) == IsInvalid(MonthFirstDay(yearMonth))

getMonthRange(yearMonth) ==
  [start       |-> ISODate(MonthFirstDay(yearMonth), tz),
   end         |-> ISODate(MonthLastDay(yearMonth), tz),
   year        |-> YearOfFlag(yearMonth),
   month       |-> MonthOfFlag(yearMonth),
   daysInMonth |-> GetDate(MonthLastDay(yearMonth))]

NoPeriod == [start |-> <<>>, end |-> <<>>]

ResolveThrows ==
  \/ cmd = "weekly" /\ WeekRangeThrows(refDate)
  \/ cmd = "monthly" /\ MonthRangeThrows(targetMonth)

\* The period a run works with: for the daily command the one date.
ResolvedPeriod ==
  CASE cmd = "daily"   -> [start |-> targetDate, end |-> targetDate]
    [] cmd = "weekly"  -> getWeekRange(refDate)
    [] cmd = "monthly" -> getMonthRange(targetMonth)

-----------------------------------------------------------------------------
(* The query.                                                              *)

\* The text a timestamp column holds when it is no timestamp but the word
\* 'now', and what the row looks like to the script: timestamp.slice(0, 10)
\* is that word and new Date(timestamp).getHours() is NaN.
NowText == <<NaN>>

\* SQLite's date(timestamp): the date of a timestamp, and for the text 'now'
\* the current UTC date.
SqlDate(r) == IF r.date = NowText THEN TodayISO ELSE r.date

\* WHERE date(timestamp) = ? (daily) / >= ? AND <= ? (weekly, monthly),
\* ORDER BY timestamp ASC.  Archived and empty rows are not in the model's
\* table.  A parameter that is no date string matches nothing.
InRange(r, p) ==
  IF cmd = "daily" THEN SqlDate(r) = p.start
  ELSE /\ Len(p.start) = 3 /\ Len(p.end) = 3
       /\ DateLeq(p.start, SqlDate(r)) /\ DateLeq(SqlDate(r), p.end)

SelectRows(p) == SelectSeq(store, LAMBDA r : InRange(r, p))

-----------------------------------------------------------------------------
(* Aggregation.                                                            *)

\* The elements of an array.
Range(q) == {q[i] : i \in 1..Len(q)}

RECURSIVE SumSeq(_)
SumSeq(q) == IF q = <<>> THEN 0 ELSE Head(q) + SumSeq(Tail(q))

\* rows.reduce((sum, r) => sum + (r.numWords || 0), 0)
TotalWords(rs) == SumSeq([i \in 1..Len(rs) |-> WordsOf(rs[i])])

\* r.duration || 0, in whole seconds
DurationOf(r) == IF r.duration = NullNum THEN 0 ELSE r.duration

\* rows.reduce((sum, r) => sum + (r.duration || 0), 0)
TotalDuration(rs) == SumSeq([i \in 1..Len(rs) |-> DurationOf(rs[i])])

\* new Set(rows.map((r) => r.app).filter(Boolean)).size
UniqueApps(rs) == Cardinality({rs[i].app : i \in 1..Len(rs)} \ {NullApp})

\* One pass of the appMap loop: create the bucket unless appMap[appName] is
\* truthy, then count into appMap[appName].  When the truthy value is an
\* inherited function the counts land on that function and appMap keeps no
\* own property for the name.
AppMapAdd(appMap, r) ==
  LET bundleId == BundleIdOf(r)
      appName == friendlyAppName(bundleId)
      created == IF Truthy(appMap, appName) THEN appMap
                 ELSE Append(appMap, [k |-> appName,
                                      v |-> [count |-> 0, words |-> 0,
                                             bundleId |-> bundleId]])
      i == OwnIndex(created, appName)
  IN  IF i = 0 THEN created
      ELSE [created EXCEPT ![i].v.count = @ + 1, ![i].v.words = @ + WordsOf(r)]

RECURSIVE AppMapFrom(_, _)
AppMapFrom(appMap, rs) ==
  IF rs = <<>> THEN appMap ELSE AppMapFrom(AppMapAdd(appMap, Head(rs)), Tail(rs))

AppMap(rs) == AppMapFrom(<<>>, rs)

EntryCount(e) == e.v.count

\* Object.entries(appMap).sort((a, b) => b[1].count - a[1].count)
AppsSorted(rs) ==
  LET entries == ObjectEntries(AppMap(rs))
  IN  SortDesc(entries, [i \in 1..Len(entries) |-> EntryCount(entries[i])])

\* new Date(r.timestamp).getHours(), as a property key: "0" .. "23", or
\* "NaN" for an Invalid Date
HourKey(r) == IF r.hour = NaN THEN W("NaN") ELSE <<Digits(r.hour)>>

\* hourMap[hour] = (hourMap[hour] || 0) + 1
HourMapAdd(hourMap, r) ==
  LET i == OwnIndex(hourMap, HourKey(r))
  IN  IF i = 0 THEN Append(hourMap, [k |-> HourKey(r), v |-> 1])
      ELSE [hourMap EXCEPT ![i].v = @ + 1]

RECURSIVE HourMapFrom(_, _)
HourMapFrom(hourMap, rs) ==
  IF rs = <<>> THEN hourMap ELSE HourMapFrom(HourMapAdd(hourMap, Head(rs)), Tail(rs))

HourMap(rs) == HourMapFrom(<<>>, rs)

EntryValue(e) == e.v

Undefined == [k |-> <<>>, v |-> NaN]

\* Object.entries(hourMap).sort((a, b) => b[1] - a[1])[0]
PeakHour(rs) ==
  LET entries == ObjectEntries(HourMap(rs))
      sorted == SortDesc(entries, [i \in 1..Len(entries) |-> EntryValue(entries[i])])
  IN  IF sorted = <<>> THEN Undefined ELSE sorted[1]

\* transcriptsByApp[appName].push(...) raises TypeError when the value found
\* under appName is an inherited function and not an array (daily, weekly).
TranscriptsThrow(rs) ==
  \E i \in 1..Len(rs) : friendlyAppName(BundleIdOf(rs[i])) \in ObjectPrototypeKeys

\* dayMap[key] || { count: 0, words: 0, duration: 0, apps: new Set() }, with
\* dayMap keyed by r.timestamp.slice(0, 10).
DayData(rs, key) ==
  LET mine == SelectSeq(rs, LAMBDA r : r.date = key)
  IN  [count |-> Len(mine),
       words |-> TotalWords(mine),
       apps  |-> {mine[i].app : i \in 1..Len(mine)} \ {NullApp}]

DayEntry(rs, key, dayOfWeek, dayNum) ==
  LET d == DayData(rs, key)
  IN  [date |-> key, dayOfWeek |-> dayOfWeek, dayNum |-> dayNum,
       count |-> d.count, words |-> d.words, appCount |-> Cardinality(d.apps)]

\* Weekly: while (cur <= endD) { key = cur.toISOString().slice(0, 10); ...;
\* cur.setDate(cur.getDate() + 1) }
RECURSIVE FillWeek(_, _, _)
FillWeek(rs, cur, endD) ==
  IF cur.day > endD.day THEN <<>>
  ELSE <<DayEntry(rs, ISODate(cur, tz), GetDay(cur), GetDate(cur))>>
       \o FillWeek(rs, SetDate(cur, GetDate(cur) + 1), endD)

DaySorted(rs, week) == FillWeek(rs, NewDateNoon(week.start), NewDateNoon(week.end))

\* Monthly: for (d = 1; d <= daysInMonth; d++) { key = `${year}-${month}-${d}`
\* zero-padded; dt = new Date(key + "T12:00:00"); ... }
AllDays(rs, monthRange) ==
  [d \in 1..monthRange.daysInMonth |->
     LET key == <<monthRange.year, monthRange.month, d>>
     IN  DayEntry(rs, key, GetDay(NewDateNoon(key)), d)]

\* Mutant of BusiestFrom: a later day of equal count replaces the best.
RECURSIVE BusiestFromLast(_, _)
BusiestFromLast(best, days) ==
  IF days = <<>> THEN best
  ELSE BusiestFromLast(IF Head(days).count >= best.count THEN Head(days) ELSE best,
                       Tail(days))

\* days.reduce((best, d) => (d.count > best.count ? d : best), days[0])
RECURSIVE BusiestFrom(_, _)
BusiestFrom(best, days) ==
  IF days = <<>> THEN best
  ELSE BusiestFrom(IF Head(days).count > best.count THEN Head(days) ELSE best,
                   Tail(days))

BusiestDay(days) == BusiestFrom(days[1], days)

\* dowAggregate[d.dayOfWeek] += d.count over allDays, Sun = 0 .. Sat = 6
DowAggregate(days) ==
  [w \in 0..6 |->
     SumSeq([i \in 1..Len(days) |->
               IF days[i].dayOfWeek = w THEN days[i].count ELSE 0])]

\* Mutant of DowValues: the aggregate is shown in its own order, Sunday first.
DowValuesSundayFirst(days) ==
  LET dowAggregate == DowAggregate(days)
  IN  <<dowAggregate[0], dowAggregate[1], dowAggregate[2], dowAggregate[3],
        dowAggregate[4], dowAggregate[5], dowAggregate[6]>>

\* The aggregate reordered Monday to Sunday for display.
DowValues(days) ==
  LET dowAggregate == DowAggregate(days)
  IN  <<dowAggregate[1], dowAggregate[2], dowAggregate[3], dowAggregate[4],
        dowAggregate[5], dowAggregate[6], dowAggregate[0]>>

\* Mutant of getWeekOfMonth: the weeks start on Sunday.
getWeekOfMonthSunday(dateStr) ==
  LET d == NewDateNoon(dateStr)
      firstDow == GetDay(NewDate(dateStr[1], dateStr[2] - 1, 1))
  IN  IF IsInvalid(d) THEN NaN ELSE (GetDate(d) - 1 + firstDow) \div 7

\* getWeekOfMonth(dateStr): the row of the date in a calendar of the month
\* whose weeks start on Monday, counted from 0; NaN when the string is no
\* date (every Date method of an Invalid Date returns NaN).
getWeekOfMonth(dateStr) ==
  LET d == NewDateNoon(dateStr)
      dayOfMonth == GetDate(d)
      firstDow == GetDay(NewDate(dateStr[1], dateStr[2] - 1, 1))
      adjustedFirst == IF firstDow = 0 THEN 6 ELSE firstDow - 1
  IN  IF IsInvalid(d) THEN NaN ELSE (dayOfMonth - 1 + adjustedFirst) \div 7

\* The week index as a property key: "0" .. "5", or "NaN".
WeekKey(wIdx) == IF wIdx = NaN THEN W("NaN") ELSE <<Digits(wIdx)>>

\* The weekMap loop over allDays: a week's bucket is created at the first day
\* of the month that falls in it, with that day as startDate, and every day
\* of the week adds its count, its words and the applications of its dayMap
\* bucket.  The buckets are in the order of their creation.
WeekBuckets(days, wIdx, apps) ==
  LET entry(i) ==
        LET mine == {j \in 1..Len(days) : wIdx[j] = wIdx[i]}
        IN  [k |-> WeekKey(wIdx[i]),
             v |-> [count |-> SumSeq([j \in 1..Len(days) |->
                                        IF j \in mine THEN days[j].count ELSE 0]),
                    words |-> SumSeq([j \in 1..Len(days) |->
                                        IF j \in mine THEN days[j].words ELSE 0]),
                    apps |-> UNION {apps[j] : j \in mine},
                    startDate |-> days[i].date]]
  IN  CHOOSE weekMap \in
        { [n \in 1..Cardinality(opening) |->
             entry(CHOOSE i \in opening :
                     Cardinality({j \in opening : j < i}) = n - 1)] :
            opening \in {{i \in 1..Len(days) :
                            \A j \in 1..(i - 1) : wIdx[j] # wIdx[i]}} } : TRUE

\* wIdx = getWeekOfMonth(d.date) and dm = dayMap[d.date] for every day.  (The
\* one-element sets have the three sequences computed once.)
WeekMap(rs, days) ==
  LET wIdx == [i \in 1..Len(days) |-> getWeekOfMonth(days[i].date)]
      apps == [i \in 1..Len(days) |-> DayData(rs, days[i].date).apps]
  IN  CHOOSE weekMap \in { WeekBuckets(d, w, a) :
                             d \in {days}, w \in {wIdx}, a \in {apps} } : TRUE

\* Mutant of WeeksSorted: a week's appCount is the sum of its days' appCounts.
WeeksSortedSummed(rs, days) ==
  LET entries == ObjectEntries(WeekMap(rs, days))
      sorted == SortSeq(entries, LAMBDA a, b : a.k[1].n < b.k[1].n)
  IN  [i \in 1..Len(sorted) |->
         [label |-> sorted[i].v.startDate,
          count |-> sorted[i].v.count,
          words |-> sorted[i].v.words,
          appCount |->
            SumSeq([j \in 1..Len(days) |->
                      IF WeekKey(getWeekOfMonth(days[j].date)) = sorted[i].k
                      THEN days[j].appCount ELSE 0])]]

\* Object.entries(weekMap).sort((a, b) => parseInt(a[0]) - parseInt(b[0]))
\* .map(...): the weeks in ascending order, labelled by their first day.
WeeksSorted(rs, days) ==
  LET entries == ObjectEntries(WeekMap(rs, days))
      sorted == SortSeq(entries, LAMBDA a, b : a.k[1].n < b.k[1].n)
  IN  [i \in 1..Len(sorted) |->
         [label |-> sorted[i].v.startDate,
          count |-> sorted[i].v.count,
          words |-> sorted[i].v.words,
          appCount |-> Cardinality(sorted[i].v.apps)]]

\* Mutant of MathRound: the quotient is truncated.
MathFloor(n, d) == n \div d

\* Math.round(n / d) for n >= 0 and d > 0: the nearest integer, halves upwards.
MathRound(n, d) == (2 * n + d) \div (2 * d)

\* allDays.filter((d) => d.count > 0).length
ActiveDays(days) == Len(SelectSeq(days, LAMBDA d : d.count > 0))

\* activeDays > 0 ? Math.round(total / activeDays) : 0
AvgPerDay(total, activeDays) ==
  IF activeDays > 0 THEN MathRound(total, activeDays) ELSE 0

NoData == [kind |-> "none"]

\* The statistics the weekly and the monthly script add to those of the
\* daily one.
PeriodStats(rs, days) ==
  [uniqueApps |-> UniqueApps(rs),
   days |-> days,
   busiestDay |-> BusiestDay(days)]

\* The statistics only the monthly script computes.
MonthStats(rs, days) ==
  [weeksSorted |-> WeeksSorted(rs, days),
   dowValues |-> DowValues(days),
   activeDays |-> ActiveDays(days),
   avgDictationsPerDay |-> AvgPerDay(Len(rs), ActiveDays(days)),
   avgWordsPerDay |-> AvgPerDay(TotalWords(rs), ActiveDays(days))]

\* The statistics each script computes between the query and the output.
\* (The one-element sets have the daily breakdown computed once.)
Aggregated(rs, p) ==
  LET common == [kind |-> cmd,
                 totalDictations |-> Len(rs),
                 totalWords |-> TotalWords(rs),
                 totalDuration |-> TotalDuration(rs),
                 appsSorted |-> AppsSorted(rs),
                 hourMap |-> HourMap(rs),
                 peakHour |-> PeakHour(rs)]
  IN  CASE cmd = "daily"   -> common
        [] cmd = "weekly"  ->
             CHOOSE d \in { common @@ PeriodStats(rs, days) :
                              days \in {DaySorted(rs, p)} } : TRUE
        [] cmd = "monthly" ->
             CHOOSE d \in { common @@ PeriodStats(rs, days) @@ MonthStats(rs, days) :
                              days \in {AllDays(rs, p)} } : TRUE

AggregateThrows(rs) == cmd \in {"daily", "weekly"} /\ TranscriptsThrow(rs)

-----------------------------------------------------------------------------
(* The run.                                                                *)

\* process.exit(code), or the end of the script (code 0), or an uncaught
\* exception (code 1): the process is gone, whatever the handle's state.
Exit(code) == pc' = "exited" /\ exitCode' = code

env == <<cmd, tz, now, flag, flagHTML, dbExists, store, earlier>>

\* targetDate / getWeekRange(refDate) / getMonthRange(targetMonth), computed
\* before the database is looked at.
Resolve ==
  /\ pc = "start"
  /\ IF ResolveThrows
     THEN /\ stderr' = Append(stderr, "RangeError: Invalid time value")
          /\ Exit(1)
          /\ UNCHANGED period
     ELSE /\ period' = ResolvedPeriod
          /\ pc' = "check"
          /\ UNCHANGED <<stderr, exitCode>>
  /\ UNCHANGED <<env, db, sqlLog, rows, data, stdout, htmlFile, shown,
                 bars>>

\* Mutant of CheckDb: the existence check is missing.
CheckDbSkipped ==
  /\ pc = "check"
  /\ pc' = "open"
  /\ UNCHANGED <<env, period, db, sqlLog, rows, data, stdout, stderr, htmlFile, shown, bars,
                 exitCode>>

\* if (!fs.existsSync(DB_PATH)) { console.error(...); process.exit(1); }
CheckDb ==
  /\ pc = "check"
  /\ IF ~dbExists
     THEN /\ stderr' = Append(stderr, "Wispr Flow database not found")
          /\ Exit(1)
     ELSE /\ pc' = "open"
          /\ UNCHANGED <<stderr, exitCode>>
  /\ UNCHANGED <<env, period, db, sqlLog, rows, data, stdout, htmlFile, shown,
                 bars>>

\* Mutant of OpenDb: the handle is opened with the default, writable mode.
OpenDbWritable ==
  /\ pc = "open"
  /\ db' = "open"
  /\ sqlLog' = Append(sqlLog, "open readwrite")
  /\ pc' = "query"
  /\ UNCHANGED <<env, period, rows, data, stdout, stderr, htmlFile, shown, bars,
                 exitCode>>

\* const db = new Database(DB_PATH, { readonly: true })
OpenDb ==
  /\ pc = "open"
  /\ db' = "open"
  /\ sqlLog' = Append(sqlLog, "open readonly")
  /\ pc' = "query"
  /\ UNCHANGED <<env, period, rows, data, stdout, stderr, htmlFile, shown, bars,
                 exitCode>>

\* const rows = db.prepare(`SELECT ...`).all(...)
Query ==
  /\ pc = "query"
  /\ rows' = SelectRows(period)
  /\ sqlLog' = Append(sqlLog, "SELECT")
  /\ pc' = "loaded"
  /\ UNCHANGED <<env, period, db, data, stdout, stderr, htmlFile, shown, bars,
                 exitCode>>

\* Mutant of CheckEmpty: the message is printed but the run goes on.
CheckEmptyNoExit ==
  /\ pc = "loaded"
  /\ stdout' = IF Len(rows) = 0
               THEN Append(stdout, "No Wispr Flow dictations found")
               ELSE stdout
  /\ pc' = "aggregate"
  /\ UNCHANGED <<env, period, db, sqlLog, rows, data, stderr, htmlFile, shown, bars,
                 exitCode>>

\* if (rows.length === 0) { console.log(`No Wispr Flow dictations found ...`);
\* process.exit(0); }
CheckEmpty ==
  /\ pc = "loaded"
  /\ IF Len(rows) = 0
     THEN /\ stdout' = Append(stdout, "No Wispr Flow dictations found")
          /\ Exit(0)
     ELSE /\ pc' = "aggregate"
          /\ UNCHANGED <<stdout, exitCode>>
  /\ UNCHANGED <<env, period, db, sqlLog, rows, data, stderr, htmlFile, shown,
                 bars>>

\* The aggregation block.
Aggregate ==
  /\ pc = "aggregate"
  /\ IF AggregateThrows(rows)
     THEN /\ stderr' = Append(stderr, "TypeError: push is not a function")
          /\ Exit(1)
          /\ UNCHANGED data
     ELSE /\ data' = Aggregated(rows, period)
          /\ pc' = "output"
          /\ UNCHANGED <<stderr, exitCode>>
  /\ UNCHANGED <<env, period, db, sqlLog, rows, stdout, htmlFile, shown,
                 bars>>

\* The name of the file written under ~/Desktop.
OutPath ==
  CASE cmd = "daily"   -> [prefix |-> "wispr-recap", id |-> targetDate]
    [] cmd = "weekly"  -> [prefix |-> "wispr-weekly", id |-> period.start]
    [] cmd = "monthly" -> [prefix |-> "wispr-monthly", id |-> targetMonth]

\* Math.round((stats.count / totalDictations) * 100)
Pct(count, total) == MathRound(count * 100, total)

\* The daily formatDuration: "Ns" below a minute, otherwise "Nm Ns" or "Nm".
\* The text is the sequence of its parts [n, unit].
formatDurationDaily(seconds) ==
  LET mins == seconds \div 60
      secs == seconds % 60
  IN  IF seconds < 60 THEN <<[n |-> seconds, unit |-> "s"]>>
      ELSE IF secs > 0 THEN <<[n |-> mins, unit |-> "m"], [n |-> secs, unit |-> "s"]>>
           ELSE <<[n |-> mins, unit |-> "m"]>>

\* The weekly and monthly formatDuration: "Nm Ns" or "Nm" below an hour,
\* otherwise "Nh Nm" or "Nh" with the minutes rounded.
formatDuration(seconds) ==
  IF seconds < 3600
  THEN LET mins == seconds \div 60
           secs == seconds % 60
       IN  IF secs > 0 THEN <<[n |-> mins, unit |-> "m"], [n |-> secs, unit |-> "s"]>>
           ELSE <<[n |-> mins, unit |-> "m"]>>
  ELSE LET hrs == seconds \div 3600
           mins == MathRound(seconds % 3600, 60)
       IN  IF mins > 0 THEN <<[n |-> hrs, unit |-> "h"], [n |-> mins, unit |-> "m"]>>
           ELSE <<[n |-> hrs, unit |-> "h"]>>

\* formatDuration(totalDuration), in the 'Voice time' line and stat card.
VoiceTime(d) ==
  IF d.kind = "daily" THEN formatDurationDaily(d.totalDuration)
  ELSE formatDuration(d.totalDuration)

NotShown == [pct |-> <<>>, voiceTime |-> <<>>]

\* Mutant of Rendered: the text renderer shows no shares.
RenderedByMode(d) ==
  [pct |-> IF flagHTML
           THEN [i \in 1..Len(d.appsSorted) |->
                   Pct(d.appsSorted[i].v.count, d.totalDictations)]
           ELSE <<>>,
   voiceTime |-> VoiceTime(d)]

\* What printCLI and generateHTML derive from the statistics while rendering:
\* the share of each entry of appsSorted and the voice time.
Rendered(d) ==
  [pct |-> [i \in 1..Len(d.appsSorted) |->
              Pct(d.appsSorted[i].v.count, d.totalDictations)],
   voiceTime |-> VoiceTime(d)]

\* hourMap[h] || 0
HourMapCount(hourMap, h) ==
  LET i == OwnIndex(hourMap, <<Digits(h)>>)
  IN  IF i = 0 THEN 0 ELSE hourMap[i].v

\* The cells of the hourly heatmap of the weekly and monthly HTML report:
\* for (let h = 6; h <= 23; h++) hourCells.push(... hourMap[h] || 0 ...).
\* The daily report has no heatmap.
HourCells(d) ==
  IF d.kind = "daily" THEN <<>>
  ELSE [i \in 1..18 |-> [h |-> i + 5, count |-> HourMapCount(d.hourMap, i + 5)]]

\* barChart(value, max, width): the call with the number of filled cells,
\* Math.round((value / max) * width), and of empty cells, width - filled.
barChart(value, max, width) ==
  LET filled == MathRound(value * width, max)
  IN  [value |-> value, max |-> max, width |-> width,
       filled |-> filled, empty |-> width - filled]

\* String.prototype.repeat raises RangeError on a negative count.
BarThrows(bar) == bar.filled < 0 \/ bar.empty < 0

\* Math.max(...counts, 1)
MaxCount(counts) ==
  IF counts = <<>> THEN 1
  ELSE CHOOSE m \in Range(counts) \cup {1} :
         \A c \in Range(counts) \cup {1} : c <= m

\* Mutant of MaxAppCount: the count of the last entry of appsSorted.
MaxAppCountOfLast(d) ==
  IF d.appsSorted = <<>> THEN 1 ELSE d.appsSorted[Len(d.appsSorted)].v.count

\* appsSorted[0]?.[1].count || 1
MaxAppCount(d) ==
  IF d.appsSorted = <<>> THEN 1 ELSE d.appsSorted[1].v.count

\* The bars of the 'Apps Used' section of printCLI.
AppBars(d) ==
  [i \in 1..Len(d.appsSorted) |->
     barChart(d.appsSorted[i].v.count, MaxAppCount(d), 15)]

\* The bars of 'Day by Day' (weekly) and 'Week by Week' (monthly); an entry
\* of count 0 is drawn with barChart(0, max, 15).
CountBars(entries) ==
  LET counts == [i \in 1..Len(entries) |-> entries[i].count]
  IN  [i \in 1..Len(entries) |-> barChart(counts[i], MaxCount(counts), 15)]

\* Every call of barChart in a run of printCLI, in order.
BarCalls(d) ==
  CASE d.kind = "daily"   -> AppBars(d)
    [] d.kind = "weekly"  -> CountBars(d.days) \o AppBars(d)
    [] d.kind = "monthly" -> CountBars(d.weeksSorted) \o AppBars(d)

\* if (flagHTML) { fs.writeFileSync(outPath, generateHTML(data));
\* console.log(`... saved to ...`) } else { printCLI(data) }
Output ==
  /\ pc = "output"
  /\ shown' = Rendered(data)
  /\ IF flagHTML
     THEN /\ htmlFile' = htmlFile \cup {[path |-> OutPath,
                                         appCards |-> AppCards(data),
                                         hourCells |-> HourCells(data)]}
          /\ stdout' = Append(stdout, "HTML recap saved to")
          /\ pc' = "close"
          /\ UNCHANGED <<bars, stderr, exitCode>>
     ELSE /\ stdout' = Append(stdout, "recap")
          /\ bars' = BarCalls(data)
          /\ UNCHANGED htmlFile
          /\ IF \E i \in 1..Len(bars') : BarThrows(bars'[i])
             THEN /\ stderr' = Append(stderr, "RangeError: Invalid count value")
                  /\ Exit(1)
             ELSE /\ pc' = "close"
                  /\ UNCHANGED <<stderr, exitCode>>
  /\ UNCHANGED <<env, period, db, sqlLog, rows, data>>

\* db.close(), the last statement of the script.
Close ==
  /\ pc = "close"
  /\ db' = "closed"
  /\ Exit(0)
  /\ UNCHANGED <<env, period, sqlLog, rows, data, stdout, stderr, htmlFile, shown,
                 bars>>

Next ==
  \/ Resolve
  \/ CheckDb
  \/ OpenDb
  \/ Query
  \/ CheckEmpty
  \/ Aggregate
  \/ Output
  \/ Close

-----------------------------------------------------------------------------
(* Runs considered.                                                        *)

MaxRows == 3        \* rows of a table in the aggregation specifications
MaxNearRows == 2    \* rows of a table in Spec

Commands == {"daily", "weekly", "monthly"}

\* Whole-hour UTC offsets of inhabited places, on both sides of every change
\* of behaviour: west and east of UTC (local midnight is the same or the
\* previous UTC date) and up to or beyond +12 (local noon is the same or the
\* previous UTC date; +13 is New Zealand's summer time).
EdgeOffsets == {0 - 11, 0 - 1, 0, 1, 12, 13}

Day(y, m, d) == DayNumber(y, m, d)

\* Reference dates: the week of New Year 2026 (2026-01-01 is a Thursday) with
\* the Sunday before and the Monday after it, and the leap day of 2024 with
\* the Sunday after it.
WeekDays == Day(2025, 12, 28)..Day(2026, 1, 5) \cup {Day(2024, 2, 29), Day(2024, 3, 3)}

\* Months of 28, 29, 30 and 31 days, January and December; month 13; a date
\* given where a month is expected ("2024-02-15").
MonthFlags == { <<2023, 2>>, <<2024, 2>>, <<2024, 4>>, <<2024, 1>>, <<2025, 12>>,
                <<2024, 13>>, <<2024, 2, 15>> }

DateFlagsOf(c) ==
  CASE c = "daily"   -> {DateOf(Day(2026, 1, 1)), DateOf(Day(2024, 2, 29))}
    [] c = "weekly"  -> {DateOf(n) : n \in WeekDays}
    [] c = "monthly" -> MonthFlags

FlagsOf(c) == {NoFlag, WordFlag} \cup DateFlagsOf(c)

\* Instants of a run without a reference: early and late in the UTC day.
Noon == [day |-> Day(2026, 1, 1), hour |-> 12]
Nows == { [day |-> Day(2026, 1, 1), hour |-> 2], [day |-> Day(2026, 1, 1), hour |-> 21] }

NowsOf(f) == IF f = NoFlag THEN Nows ELSE {Noon}

\* The day the reference is about, for placing the table's rows near it.
AnchorDay(c, f) ==
  IF f = NoFlag \/ f = WordFlag THEN Day(2026, 1, 1)
  ELSE IF c = "monthly"
       THEN (IF f[2] > 12 THEN Day(f[1] + 1, 1, 1) ELSE Day(f[1], f[2], 1))
       ELSE Day(f[1], f[2], f[3])

\* Days in and just outside the week or month of the anchor.
NearDays(c, a) ==
  LET s == DateOf(a)
      monday == a - ((a + 6) % 7)
      last == a + DaysInMonth(s[1], s[2]) - 1
  IN  CASE c = "daily"   -> {a - 1, a, a + 1}
        [] c = "weekly"  -> {monday - 2, monday - 1, monday, monday + 3,
                             monday + 6, monday + 7}
        [] c = "monthly" -> {a - 1, a, a + 1, last - 1, last, last + 1}

Safari == <<W("com"), W("apple"), W("Safari")>>

\* One Safari dictation of five words at 9 o'clock on each of the days.
PlainRows(days) ==
  { [date |-> DateOf(n), hour |-> 9, app |-> Safari, numWords |-> 5,
      duration |-> 30] : n \in days }

\* History tables of up to k rows: the rows of a sequence are in timestamp
\* order.
TablesUpTo(pool, max) ==
  { t \in UNION { [1..k -> pool] : k \in 0..max } :
      \A i \in 1..Len(t), j \in 1..Len(t) :
        i < j => /\ DateLeq(t[i].date, t[j].date)
                 /\ (t[i].date = t[j].date => t[i].hour <= t[j].hour) }

Tables(pool) == TablesUpTo(pool, MaxRows)

NoRun == [tz |-> NaN]

RunStart ==
  /\ earlier = NoRun
  /\ pc = "start"
  /\ period = NoPeriod
  /\ db = "unopened"
  /\ sqlLog = <<>>
  /\ rows = <<>>
  /\ data = NoData
  /\ stdout = <<>>
  /\ stderr = <<>>
  /\ htmlFile = {}
  /\ shown = NotShown
  /\ bars = <<>>
  /\ exitCode = Running

\* Spec: every command, reference and output mode, with and without the
\* database file, at the edge offsets, over small tables near the period.
Init ==
  /\ cmd \in Commands
  /\ tz \in EdgeOffsets
  /\ flag \in FlagsOf(cmd)
  /\ now \in NowsOf(flag)
  /\ flagHTML \in BOOLEAN
  /\ dbExists \in BOOLEAN
  /\ store \in (IF dbExists
                THEN TablesUpTo(PlainRows(NearDays(cmd, AnchorDay(cmd, flag))), MaxNearRows)
                ELSE {<<>>})
  /\ RunStart

Spec == Init /\ [][Next]_vars

\* The reference of the aggregation specifications: 2026-01-01, January 2026,
\* on a machine at UTC.
FixedFlag(c) == IF c = "monthly" THEN <<2026, 1>> ELSE <<2026, 1, 1>>

\* Identifiers that are absent, in the table, and not in the table: one that
\* resolves to the name of a table entry, one to "Unknown", one with a
\* hyphen, one whose last component is a numeral, one whose last component
\* names a property of Object.prototype, one that is such a name.
AppRows ==
  LET row(a, w) == [date |-> <<2026, 1, 1>>, hour |-> 9, app |-> a, numWords |-> w,
                    duration |-> 30]
  IN  { row(NullApp, NullNum),
        row(Safari, 5),
        row(<<W("org"), W("example"), W("Safari")>>, 2),
        row(<<W("com"), W("acme"), W("Unknown")>>, 1),
        row(<<W("com"), W("acme"), <<Text("my"), Text("app")>>>>, 4),
        row(<<W("com"), W("acme"), <<Digits(7)>>>>, 3),
        row(<<W("org"), W("example"), W("constructor")>>, 6),
        row(<<W("constructor")>>, 7) }

\* Dictations at midnight, in the morning and late at night, on two days.
HourRows ==
  { [date |-> <<2026, 1, d>>, hour |-> h, app |-> Safari, numWords |-> 5,
      duration |-> 30] :
      d \in {1, 2}, h \in {0, 9, 23} }

InitFixed(pool) ==
  /\ cmd \in Commands
  /\ tz = 0
  /\ flag = FixedFlag(cmd)
  /\ now = Noon
  /\ flagHTML \in BOOLEAN
  /\ dbExists = TRUE
  /\ store \in Tables(pool)
  /\ RunStart

\* SpecApps: tables whose rows differ in the application.
InitApps == InitFixed(AppRows)
SpecApps == InitApps /\ [][Next]_vars

\* SpecHours: tables whose rows differ in the day and the hour.
InitHours == InitFixed(HourRows)
SpecHours == InitHours /\ [][Next]_vars

\* Dictations of one or two words on the last day of 2025 and on a Thursday,
\* Friday, Sunday and Monday of January 2026.
DayRows ==
  { [date |-> DateOf(n), hour |-> 9, app |-> Safari, numWords |-> w,
      duration |-> 30] :
      n \in {Day(2025, 12, 31), Day(2026, 1, 1), Day(2026, 1, 2), Day(2026, 1, 4),
              Day(2026, 1, 5)},
      w \in {1, 2} }

\* A row whose timestamp column holds the text 'now'.
BadRow ==
  [date |-> NowText, hour |-> NaN, app |-> Safari, numWords |-> 5, duration |-> 30]

\* SpecMalformed: tables that may end with the row of unparseable timestamp
\* (ORDER BY timestamp ASC puts the text 'now' after every date).
InitMalformed ==
  /\ cmd \in Commands
  /\ tz = 0
  /\ flag = FixedFlag(cmd)
  /\ now = Noon
  /\ flagHTML \in BOOLEAN
  /\ dbExists = TRUE
  /\ store \in { t \o b : t \in TablesUpTo(HourRows, MaxRows - 1),
                           b \in {<<>>, <<BadRow>>} }
  /\ RunStart
SpecMalformed == InitMalformed /\ [][Next]_vars

\* The command is run a second time with the same arguments but for --html,
\* against the unchanged store, later or at once, the machine's timezone
\* being the same or another.
TwiceOffsets == {0, 13}

Rerun ==
  /\ pc = "exited"
  /\ earlier = NoRun
  /\ earlier' = [tz |-> tz, now |-> now, flagHTML |-> flagHTML,
                 period |-> period, rows |-> rows, data |-> data,
                 shown |-> shown, exitCode |-> exitCode]
  /\ tz' \in TwiceOffsets
  /\ now' = [day |-> now.day + 1, hour |-> now.hour]
  /\ flagHTML' \in BOOLEAN
  /\ pc' = "start"
  /\ period' = NoPeriod
  /\ db' = "unopened"
  /\ sqlLog' = <<>>
  /\ rows' = <<>>
  /\ data' = NoData
  /\ stdout' = <<>>
  /\ stderr' = <<>>
  /\ htmlFile' = {}
  /\ shown' = NotShown
  /\ bars' = <<>>
  /\ exitCode' = Running
  /\ UNCHANGED <<cmd, flag, dbExists, store>>

NextTwice == Next \/ Rerun

\* SpecTwice: two runs in a row, with a reference or without, over small
\* tables near the period.
InitTwice ==
  /\ cmd \in Commands
  /\ tz \in TwiceOffsets
  /\ flag \in {NoFlag, FixedFlag(cmd)}
  /\ now = Noon
  /\ flagHTML \in BOOLEAN
  /\ dbExists = TRUE
  /\ store \in TablesUpTo(PlainRows(NearDays(cmd, AnchorDay(cmd, flag))), MaxNearRows)
  /\ RunStart
SpecTwice == InitTwice /\ [][NextTwice]_vars

\* SpecDays: tables whose rows differ in the day and the word count, on a
\* machine at UTC or one hour east of it.
InitDays ==
  /\ cmd \in Commands
  /\ tz \in {0, 1}
  /\ flag = FixedFlag(cmd)
  /\ now = Noon
  /\ flagHTML \in BOOLEAN
  /\ dbExists = TRUE
  /\ store \in Tables(DayRows)
  /\ RunStart
SpecDays == InitDays /\ [][Next]_vars

-----------------------------------------------------------------------------
(* Properties.                                                             *)

Exited == pc = "exited"
Resolved == pc \notin {"start"} /\ period # NoPeriod
HasData == data.kind # "none"
Queried == "SELECT" \in Range(sqlLog)
ReportWritten == "recap" \in Range(stdout) \/ htmlFile # {}

\* The reference names a month 1..12 / a calendar date.
MonthRef == Len(targetMonth) >= 2 /\ targetMonth[1] \in Years /\ targetMonth[2] \in 1..12
DateRef(ref) == IsDateString(ref)

\* The number of rows loaded for the date key.
LoadedOn(key) == Len(SelectSeq(rows, LAMBDA r : r.date = key))

\* C1 (as claimed): in the weekly and the monthly recap the gap-filled daily
\* breakdown has exactly one entry per calendar day of the resolved period
\* [start, end], in ascending date order, each with the number of events
\* loaded for that day (0 when there are none), and as many entries as the
\* period has days: 7 for a week, the month's day count for a month.
C1_GapFilledDays ==
  (HasData /\ cmd \in {"weekly", "monthly"}) =>
    LET days == data.days
        first == DayNumber(period.start[1], period.start[2], period.start[3])
        last == DayNumber(period.end[1], period.end[2], period.end[3])
    IN  /\ Len(days) = last - first + 1
        /\ Len(days) = (IF cmd = "weekly" THEN 7 ELSE period.daysInMonth)
        /\ \A i \in 1..Len(days) :
             /\ days[i].date = DateOf(first + i - 1)
             /\ days[i].count = LoadedOn(days[i].date)

\* C2 (as claimed): for every month reference and every UTC offset,
\* getMonthRange returns the first and the last calendar day of that month,
\* and these are the bounds of the query.
C2_MonthBounds ==
  (cmd = "monthly" /\ Resolved /\ MonthRef) =>
    /\ period.start = <<targetMonth[1], targetMonth[2], 1>>
    /\ period.end = <<targetMonth[1], targetMonth[2],
                      DaysInMonth(targetMonth[1], targetMonth[2])>>

\* C3 (as claimed): for every reference date d, getWeekRange(d) starts on the
\* Monday on or before d and ends on the Sunday six days later.
C3_WeekBounds ==
  (cmd = "weekly" /\ Resolved /\ DateRef(refDate)) =>
    LET d == DayNumber(refDate[1], refDate[2], refDate[3])
        monday == d - ((d + 6) % 7)
    IN  /\ period.start = DateOf(monday)
        /\ period.end = DateOf(monday + 6)

\* The reference given on the command line is no calendar date (a word, or a
\* month number outside 1..12).
InvalidReference ==
  /\ flag # NoFlag
  /\ IF cmd = "monthly" THEN ~MonthRef ELSE ~DateRef(flag)

\* C4 (as claimed): with an unparseable reference the run ends with an error
\* message and a non-zero exit status and produces no report.
C4_InvalidReferenceFails ==
  (Exited /\ InvalidReference) =>
    /\ exitCode # 0
    /\ stderr # <<>>
    /\ ~ReportWritten

\* C5 (as claimed): on every exit path of a run that has opened the store
\* handle, the handle is closed before the process terminates.
C5_HandleReleased == Exited => db # "open"

\* C6 (as claimed): when the database file does not exist the run reports
\* that condition and exits non-zero before the store is opened, before any
\* query and before any report output.
C6_StoreUnavailable ==
  (Exited /\ ~dbExists) =>
    /\ "Wispr Flow database not found" \in Range(stderr)
    /\ exitCode = 1
    /\ db = "unopened"
    /\ sqlLog = <<>>
    /\ stdout = <<>> /\ htmlFile = {}

\* C6 (amended): when the database file does not exist the run never opens
\* the store, issues no query and produces no output, and it exits with
\* status 1; it reports the missing database unless period resolution has
\* already aborted the run with a RangeError (weekly, monthly).
C6_StoreUnavailableAmended ==
  ~dbExists =>
    /\ pc \in {"start", "check", "exited"}
    /\ db = "unopened" /\ sqlLog = <<>>
    /\ stdout = <<>> /\ htmlFile = {} /\ ~HasData
    /\ Exited =>
         /\ exitCode = 1
         /\ IF ResolveThrows
            THEN stderr = <<"RangeError: Invalid time value">>
            ELSE stderr = <<"Wispr Flow database not found">>

C6_Witness ==
  /\ ~dbExists /\ Exited /\ cmd = "daily"
  /\ stderr = <<"Wispr Flow database not found">>

\* C7: when the store opens and the query returns no row, the run prints the
\* 'No Wispr Flow dictations found' message and exits with status 0; nothing
\* is aggregated or rendered and no HTML file is written, --html or not.
C7_EmptyPeriod ==
  (Queried /\ rows = <<>> /\ pc # "loaded") =>
    /\ Exited
    /\ exitCode = 0
    /\ stdout = <<"No Wispr Flow dictations found">>
    /\ stderr = <<>>
    /\ htmlFile = {}
    /\ ~HasData

C7_Witness ==
  /\ Queried /\ rows = <<>> /\ Exited /\ flagHTML /\ store # <<>>
  /\ cmd = "monthly"

\* The display name a row is grouped under.
NameOf(r) == friendlyAppName(BundleIdOf(r))

\* The position in the timestamp-ordered rows of the first event of a name.
FirstSeen(name) ==
  CHOOSE i \in 1..Len(rows) :
    /\ NameOf(rows[i]) = name
    /\ \A j \in 1..(i - 1) : NameOf(rows[j]) # name

\* C8 (as claimed): appsSorted is in non-increasing order of event count, and
\* applications with equal counts appear in the order of their first events.
C8_AppRanking ==
  HasData =>
    LET a == data.appsSorted
    IN  \A i \in 1..Len(a), j \in 1..Len(a) :
          i < j => \/ a[i].v.count > a[j].v.count
                   \/ /\ a[i].v.count = a[j].v.count
                      /\ FirstSeen(a[i].k) < FirstSeen(a[j].k)

\* C9 (as claimed): the breakdown has exactly one bucket per distinct
\* resolved display name of the loaded rows, and a bucket's count is the
\* number of rows whose resolved name is the bucket's name.
C9_GroupedByName ==
  HasData =>
    LET a == data.appsSorted
        names == {NameOf(rows[i]) : i \in 1..Len(rows)}
    IN  /\ {a[i].k : i \in 1..Len(a)} = names
        /\ Len(a) = Cardinality(names)
        /\ \A i \in 1..Len(a) :
             a[i].v.count = Len(SelectSeq(rows, LAMBDA r : NameOf(r) = a[i].k))

\* The number of loaded rows at hour h.
HourCount(h) == Len(SelectSeq(rows, LAMBDA r : r.hour = h))

C11_BusiestDay ==
  (HasData /\ cmd \in {"weekly", "monthly"}) =>
    LET days == data.days
        b == data.busiestDay
    IN  \E i \in 1..Len(days) :
          /\ days[i] = b
          /\ \A j \in 1..Len(days) :
               /\ days[j].count <= b.count
               /\ days[j].count = b.count => i <= j

\* Two days share the largest count and the earlier one is the busiest day.
C11_Witness ==
  /\ HasData /\ cmd = "weekly"
  /\ data.busiestDay.date = <<2026, 1, 1>>
  /\ data.busiestDay.count = 1
  /\ \E j \in 1..Len(data.days) :
       data.days[j].date = <<2026, 1, 2>> /\ data.days[j].count = 1

\* q is an integer nearest to n / d.
Nearest(q, n, d) == 2 * n - d <= 2 * q * d /\ 2 * q * d <= 2 * n + d

\* C12: in the monthly recap activeDays is the number of gap-filled day
\* entries with count > 0; with activeDays > 0 the two averages are
\* totalDictations / activeDays and totalWords / activeDays rounded to the
\* nearest integer; with activeDays = 0 both averages are 0.
C12_DailyAverages ==
  (HasData /\ cmd = "monthly") =>
    /\ data.activeDays =
         Cardinality({i \in 1..Len(data.days) : data.days[i].count > 0})
    /\ IF data.activeDays > 0
       THEN /\ Nearest(data.avgDictationsPerDay, data.totalDictations, data.activeDays)
            /\ Nearest(data.avgWordsPerDay, data.totalWords, data.activeDays)
       ELSE data.avgDictationsPerDay = 0 /\ data.avgWordsPerDay = 0

\* Three active days with five words in all: 5 / 3 is rounded up to 2.
C12_Witness ==
  /\ HasData /\ cmd = "monthly"
  /\ data.activeDays = 3 /\ data.totalDictations = 3
  /\ data.totalWords = 5
  /\ data.avgDictationsPerDay = 1 /\ data.avgWordsPerDay = 2

\* A report has been rendered from the statistics.
Reported == HasData /\ pc \in {"close", "exited"}

\* q is n / d rounded to an integer, halves upwards.
RoundHalfUp(q, n, d) == 2 * q * d <= 2 * n + d /\ 2 * n + d < 2 * (q + 1) * d

\* C13 (as claimed): each application's share is round-half-up of
\* count / totalDictations * 100, and with N >= 1 applications in the
\* breakdown the shares sum to 100 give or take N - 1.
C13_PercentageSum ==
  Reported =>
    LET a == data.appsSorted
        N == Len(a)
        sum == SumSeq(shown.pct)
    IN  /\ Len(shown.pct) = N
        /\ \A i \in 1..N :
             RoundHalfUp(shown.pct[i], a[i].v.count * 100, data.totalDictations)
        /\ N >= 1 => /\ sum - 100 <= N - 1
                     /\ 100 - sum <= N - 1

\* The loaded rows whose timestamp can be parsed.
WellFormed(rs) == SelectSeq(rs, LAMBDA r : r.date # NowText /\ r.hour # NaN)

\* C14 (as claimed): a loaded row whose timestamp cannot be parsed is skipped:
\* the run does not abort, and the statistics are those of the remaining
\* rows, with no total and no hour, day or application bucket counting the
\* row and no hour bucket under an invalid key.
C14_MalformedSkipped ==
  /\ (Exited /\ rows # <<>>) => exitCode = 0
  /\ HasData =>
       /\ data = Aggregated(WellFormed(rows), period)
       /\ \A i \in 1..Len(data.hourMap) : IsArrayIndex(data.hourMap[i].k)

\* Both runs of the command have ended.
RanTwice == earlier # NoRun /\ Exited

\* C15 (as claimed): two runs of the same command with the same explicit
\* reference against the unchanged store end with identical aggregated
\* statistics, whatever else differs between the runs.
C15_Idempotent ==
  (RanTwice /\ flag # NoFlag) =>
    /\ data = earlier.data
    /\ exitCode = earlier.exitCode

C17_ReadOnly ==
  [][ /\ store' = store
      /\ dbExists' = dbExists
      /\ sqlLog' \in {<<>>, <<"open readonly">>, <<"open readonly", "SELECT">>} ]_vars

\* A run that opened the store, queried it and reported on two dictations.
C17_Witness ==
  /\ Exited /\ exitCode = 0 /\ ReportWritten /\ Len(store) = 2
  /\ sqlLog = <<"open readonly", "SELECT">>

\* The name the identifier of a row is to resolve to: "Unknown" when it is
\* absent, the table's name when it is a key of the table, otherwise its last
\* component with the hyphens replaced by spaces.
ExpectedName(app) ==
  IF app = NullApp THEN W("Unknown")
  ELSE IF \E e \in FriendlyMap : e[1] = app
       THEN (CHOOSE e \in FriendlyMap : e[1] = app)[2]
       ELSE app[Len(app)]

\* C18 (as claimed): the identifier of every loaded row resolves to
\* "Unknown", the table's name or its last component with spaces for
\* hyphens; and in the HTML report every application whose identifier is no
\* key of the icon table is shown with the first character of its name.
C18_NameResolution ==
  /\ HasData =>
       \A i \in 1..Len(rows) : NameOf(rows[i]) = ExpectedName(rows[i].app)
  /\ \A f \in htmlFile :
       \A i \in 1..Len(data.appsSorted) :
         LET e == data.appsSorted[i]
         IN  e.v.bundleId \notin IconKeys =>
               f.appCards[i] = [fallback |-> [charAt0 |-> e.k[1]]]

\* The calendar date on the machine's clock at the instant of the run.
LocalToday == DateOf((now.day * 24 + now.hour + tz) \div 24)

\* C19 (as claimed): the daily recap queries the single day D given with
\* --date=D, and without --date the current local calendar date, at every
\* time of day and every UTC offset.
C19_DailyPeriod ==
  LET D == IF flag # NoFlag THEN flag ELSE LocalToday
  IN  /\ (cmd = "daily" /\ Resolved) => period.start = D /\ period.end = D
      /\ (cmd = "daily" /\ Queried) => rows = SelectSeq(store, LAMBDA r : r.date = D)

\* C20 (as claimed): in a run that produces a report the store handle is
\* closed before the text recap is printed or the HTML file is written, so
\* there is no report output while the handle is open.
C20_CloseBeforeOutput == ReportWritten => db = "closed"

-----------------------------------------------------------------------------
(* The monthly breakdowns.                                                 *)

\* Every month of 2024 to 2027: months of 28 to 31 days that begin on each
\* day of the week (February 2027 begins on a Monday, March 2025 on a
\* Saturday).
AllMonths == { <<y, m>> : y \in 2024..2027, m \in 1..12 }

\* Dictations on the 1st, the 8th and the 15th of the month of the reference,
\* with and without an application.
MonthRows(f) ==
  { [date |-> <<f[1], f[2], d>>, hour |-> 9, app |-> a, numWords |-> 5,
      duration |-> 30] :
      d \in {1, 8, 15}, a \in {Safari, NullApp} }

\* SpecMonths: the monthly command for every month, west of, at and east of
\* UTC, over one dictation in the month.
InitMonths ==
  /\ cmd = "monthly"
  /\ tz \in {0 - 11, 0, 13}
  /\ flag \in AllMonths
  /\ now = Noon
  /\ flagHTML \in BOOLEAN
  /\ dbExists \in BOOLEAN
  /\ store \in (IF dbExists
                THEN {<<r>> : r \in {x \in MonthRows(flag) : x.date[3] = 15}}
                ELSE {<<>>})
  /\ RunStart
SpecMonths == InitMonths /\ [][Next]_vars

\* The weekday of a day number with Monday = 0 .. Sunday = 6, and the day
\* number of the Monday of its week.
MondayBased(n) == (n + 6) % 7
MondayOf(n) == n - MondayBased(n)

\* C21: for every day of the month reported on, getWeekOfMonth is
\* floor((dayOfMonth - 1 + offsetToMonday) / 7) with offsetToMonday the
\* weekday of the 1st counted from Monday = 0; the index is 0 on the 1st and
\* goes up by one exactly at each Monday; two days share an index iff they
\* lie in the same Monday-to-Sunday week; the indices of the month are 0..k
\* with 4 to 6 values; and weeksSorted has one entry per index, in ascending
\* order, labelled with the first day of the month in that week.
C21_WeekOfMonth ==
  (HasData /\ cmd = "monthly" /\ MonthRef) =>
    LET first == DayNumber(targetMonth[1], targetMonth[2], 1)
        offsetToMonday == MondayBased(first)
        weeks == data.weeksSorted
    IN  \A days \in {data.days} :
        \A idx \in {[i \in 1..Len(days) |-> getWeekOfMonth(days[i].date)]} :
        \A monday \in {[i \in 1..Len(days) |-> MondayOf(first + i - 1)]} :
          LET used == {idx[i] : i \in 1..Len(days)}
          IN  /\ Len(days) = DaysInMonth(targetMonth[1], targetMonth[2])
              /\ \A i \in 1..Len(days) :
                   /\ idx[i] = (i - 1 + offsetToMonday) \div 7
                   /\ i = 1 => idx[i] = 0
                   /\ i > 1 => idx[i] = idx[i - 1]
                                        + (IF monday[i] = first + i - 1 THEN 1 ELSE 0)
                   /\ \A j \in 1..Len(days) :
                        idx[i] = idx[j] <=> monday[i] = monday[j]
              /\ Cardinality(used) \in 4..6
              /\ used = 0..(Cardinality(used) - 1)
              /\ Len(weeks) = Cardinality(used)
              /\ \A n \in 1..Len(weeks) :
                   LET i == CHOOSE i \in 1..Len(days) :
                              idx[i] = n - 1 /\ \A j \in 1..(i - 1) : idx[j] # n - 1
                   IN  weeks[n].label = days[i].date

\* March 2025 begins on a Saturday and has six weeks; the report is made
\* thirteen hours east of UTC.
C21_Witness ==
  /\ HasData /\ cmd = "monthly" /\ flag = <<2025, 3>> /\ tz = 13
  /\ Len(data.weeksSorted) = 6
  /\ data.weeksSorted[2].label = <<2025, 3, 3>>

OtherSafari == <<W("org"), W("example"), W("Safari")>>

\* Dictations on a Thursday, the Friday after it and the Monday after that,
\* with no application, with Safari and with another application of the same
\* display name.
DayAppRows ==
  { [date |-> <<2026, 1, d>>, hour |-> 9, app |-> a, numWords |-> 5,
      duration |-> 30] :
      d \in {1, 2, 5}, a \in {NullApp, Safari, OtherSafari} }

\* SpecDayApps: tables whose rows differ in the day and the application.
InitDayApps == InitFixed(DayAppRows)
SpecDayApps == InitDayApps /\ [][Next]_vars

\* The application identifiers of the rows loaded for a date.
AppsOn(key) ==
  {rows[i].app : i \in {j \in 1..Len(rows) : rows[j].date = key}} \ {NullApp}

\* The entries of the daily breakdown in the Monday-to-Sunday week of a date.
SameWeek(days, key) ==
  {i \in 1..Len(days) :
     MondayOf(DayNumber(days[i].date[1], days[i].date[2], days[i].date[3]))
       = MondayOf(DayNumber(key[1], key[2], key[3]))}

\* C22: in the monthly recap the appCount of each week is the number of
\* distinct application identifiers of the rows of that week's days: the
\* size of the union of the days' sets, never more than the sum of the days'
\* appCounts and never less than the largest of them.
C22_WeekAppCount ==
  (HasData /\ cmd = "monthly") =>
    LET days == data.days
        weeks == data.weeksSorted
    IN  \A n \in 1..Len(weeks) :
          LET mine == SameWeek(days, weeks[n].label)
          IN  /\ weeks[n].appCount
                   = Cardinality(UNION {AppsOn(days[i].date) : i \in mine})
              /\ \A i \in mine :
                   /\ days[i].appCount = Cardinality(AppsOn(days[i].date))
                   /\ days[i].appCount <= weeks[n].appCount
              /\ weeks[n].appCount
                   <= SumSeq([i \in 1..Len(days) |->
                                IF i \in mine THEN days[i].appCount ELSE 0])

\* Safari on Thursday and on Friday of the first week, another application on
\* the Monday of the second: one application in each week.
C22_Witness ==
  /\ HasData /\ cmd = "monthly" /\ Len(rows) = 3
  /\ rows[1].date = <<2026, 1, 1>> /\ rows[1].app = Safari
  /\ rows[2].date = <<2026, 1, 2>> /\ rows[2].app = Safari
  /\ rows[3].date = <<2026, 1, 5>> /\ rows[3].app = OtherSafari
  /\ data.weeksSorted[1].appCount = 1
  /\ data.weeksSorted[2].appCount = 1
  /\ data.days[1].appCount = 1 /\ data.days[2].appCount = 1

\* C23: in the monthly recap dowValues has exactly seven entries, Monday
\* first and Sunday last; entry i is the sum of the counts of the gap-filled
\* days that fall on that weekday; and the seven entries add up to the sum
\* of all daily counts.
C23_DayOfWeek ==
  (HasData /\ cmd = "monthly") =>
    LET days == data.days
        weekday(j) ==
          MondayBased(DayNumber(days[j].date[1], days[j].date[2], days[j].date[3]))
    IN  /\ Len(data.dowValues) = 7
        /\ \A i \in 1..7 :
             data.dowValues[i]
               = SumSeq([j \in 1..Len(days) |->
                           IF weekday(j) = i - 1 THEN days[j].count ELSE 0])
        /\ SumSeq(data.dowValues) = SumSeq([j \in 1..Len(days) |-> days[j].count])

\* One dictation on Sunday the 4th and two on Monday the 5th.
C23_Witness ==
  /\ HasData /\ cmd = "monthly"
  /\ data.dowValues = <<2, 0, 0, 0, 0, 0, 1>>

\* C24 (as claimed): in the weekly and the monthly recap every loaded row is
\* counted in exactly one entry of the gap-filled daily breakdown: the
\* entries' counts add up to totalDictations and their words to totalWords,
\* for every reference and every UTC offset.
C24_DayBuckets ==
  (HasData /\ cmd \in {"weekly", "monthly"}) =>
    LET days == data.days
    IN  /\ SumSeq([i \in 1..Len(days) |-> days[i].count]) = data.totalDictations
        /\ SumSeq([i \in 1..Len(days) |-> days[i].words]) = data.totalWords
        /\ \A r \in Range(rows) :
             Cardinality({i \in 1..Len(days) : days[i].date = r.date}) = 1

\* C25 (as claimed): in the weekly and the monthly recap the 'Apps used'
\* figure equals the number of entries of the per-application breakdown, also
\* when rows have no application identifier and when two identifiers resolve
\* to the same display name.
C25_AppsUsed ==
  (HasData /\ cmd \in {"weekly", "monthly"}) =>
    data.uniqueApps = Len(data.appsSorted)

\* Dictations of no recorded duration and of a second, a minute and close
\* to an hour, on one day.
DurationRows ==
  { [date |-> <<2026, 1, 1>>, hour |-> 9, app |-> Safari, numWords |-> 5,
     duration |-> s] : s \in {NullNum, 1, 59, 60, 3510, 3570, 3599, 3600} }

\* SpecDurations: tables whose rows differ in the duration.
InitDurations == InitFixed(DurationRows)
SpecDurations == InitDurations /\ [][Next]_vars

\* The number in front of a unit in a formatted duration, 0 when absent.
PartOf(text, u) ==
  IF \E i \in 1..Len(text) : text[i].unit = u
  THEN (CHOOSE p \in Range(text) : p.unit = u).n
  ELSE 0

\* C26 (as claimed): for every whole number of seconds the weekly and monthly
\* formatDuration prints fewer than 60 minutes in its 'Nh Nm' form and fewer
\* than 60 seconds in its 'Nm Ns' form, and the hours and minutes of the
\* 'Nh Nm' form are less than 60 seconds away from the input.
C26_DurationInRange ==
  (Reported /\ cmd \in {"weekly", "monthly"}) =>
    LET text == shown.voiceTime
        h == PartOf(text, "h")
        m == PartOf(text, "m")
        s == PartOf(text, "s")
        shownSeconds == h * 3600 + m * 60
    IN  /\ s < 60
        /\ data.totalDuration >= 3600 =>
             /\ m < 60
             /\ shownSeconds - data.totalDuration < 60
             /\ data.totalDuration - shownSeconds < 60

\* C27 (as claimed): in the weekly and the monthly HTML report the counts of
\* the heatmap cells add up to totalDictations and the peak hour is the hour
\* of one of the cells, for events at any hour 0..23.
C27_HeatmapComplete ==
  \A f \in htmlFile :
    cmd \in {"weekly", "monthly"} =>
      /\ SumSeq([i \in 1..Len(f.hourCells) |-> f.hourCells[i].count])
           = data.totalDictations
      /\ \E i \in 1..Len(f.hourCells) :
           <<Digits(f.hourCells[i].h)>> = data.peakHour.k

\* C28 (as claimed): with --html the file written is named after the
\* resolved period and nothing else: wispr-recap-<the date>, wispr-weekly-
\* <the Monday the week starts on>, wispr-monthly-<year and month of the
\* period>; so references that resolve to the same period write the same
\* file.
C28_FileNameOfPeriod ==
  \A f \in htmlFile :
    CASE cmd = "daily" ->
           f.path = [prefix |-> "wispr-recap", id |-> period.start]
      [] cmd = "weekly" ->
           /\ f.path = [prefix |-> "wispr-weekly", id |-> period.start]
           /\ MondayBased(DayNumber(period.start[1], period.start[2],
                                    period.start[3])) = 0
      [] cmd = "monthly" ->
           f.path = [prefix |-> "wispr-monthly",
                     id |-> <<period.end[1], period.end[2]>>]

\* C29 (as claimed): in all three commands the counts of the application
\* buckets add up to totalDictations and their words to totalWords, a
\* missing numWords counting as 0; every loaded row is counted in exactly
\* one bucket, and every bucket has a count of at least 1.
C29_AppBuckets ==
  HasData =>
    LET a == data.appsSorted
    IN  /\ SumSeq([i \in 1..Len(a) |-> a[i].v.count]) = data.totalDictations
        /\ SumSeq([i \in 1..Len(a) |-> a[i].v.words]) = data.totalWords
        /\ data.totalDictations = Len(rows)
        /\ data.totalWords
             = SumSeq([i \in 1..Len(rows) |->
                         IF rows[i].numWords = NullNum THEN 0 ELSE rows[i].numWords])
        /\ \A r \in Range(rows) :
             Cardinality({i \in 1..Len(a) : a[i].k = NameOf(r)}) = 1
        /\ \A i \in 1..Len(a) : a[i].v.count >= 1

\* C30: at every call of barChart made by the text renderers the value is
\* between 0 and max and max is at least 1, so the filled cells are between
\* 0 and width, the empty cells are never negative, filled and empty make up
\* width cells, and printCLI never fails in String.repeat; a text report
\* draws one bar per entry of each list it shows.
C30_BarsInRange ==
  /\ \A i \in 1..Len(bars) :
       LET b == bars[i]
       IN  /\ 0 <= b.value /\ b.value <= b.max /\ b.max >= 1
           /\ 0 <= b.filled /\ b.filled <= b.width
           /\ b.empty >= 0
           /\ b.filled + b.empty = b.width
  /\ "RangeError: Invalid count value" \notin Range(stderr)
  /\ (Reported /\ ~flagHTML) =>
       Len(bars) = Len(data.appsSorted)
                   + (IF cmd = "weekly" THEN Len(data.days)
                      ELSE IF cmd = "monthly" THEN Len(data.weeksSorted) ELSE 0)

\* A weekly text report of three dictations, two of them on one day and two
\* of them in Safari: full and half bars for the days and the applications.
C30_Witness ==
  /\ Reported /\ ~flagHTML /\ cmd = "weekly" /\ Len(rows) = 3
  /\ Len(bars) = 9
  /\ \E i \in 1..7 : bars[i].value = 2 /\ bars[i].max = 2 /\ bars[i].filled = 15
  /\ \E i \in 1..7 : bars[i].value = 1 /\ bars[i].max = 2 /\ bars[i].filled = 8
  /\ \E i \in 1..7 : bars[i].value = 0 /\ bars[i].empty = 15
  /\ bars[8].value = 2 /\ bars[9].value = 1 /\ bars[9].filled = 8

====
